---- MODULE Spec2Model ----
\* A model of bluesky_kafka/kafka.py: Publisher (producer side) and
\* RemoteDispatcher (consumer side) around one Kafka topic.
EXTENDS Naturals, Sequences, FiniteSets

\* ---------------------------------------------------------------- bounds
QueueCap == 1       \* capacity of the producer's local queue
MaxPublish == 2     \* publish calls explored
MaxClose == 2       \* close() calls in a row explored
MaxForeign == 2     \* messages put on the topic by other producers
MaxPolls == 3       \* consumer.poll calls explored
MaxStarts == 2      \* start() calls explored
MaxStops == 2       \* stop() calls made from outside start()

\* ---------------------------------------------------------------- data
Topic == "bluesky-event"
Names == {"start", "stop"}          \* members of DocumentNames
Docs == {"d1", "d2"}
\* the (name, doc) pairs the upstream engine emits
Emitted == {<<"start", "d1">>, <<"stop", "d2">>}

\* pickle.dumps / pickle.loads of the pair (name, doc)
Serialize(pair) == <<"pickle", pair[1], pair[2]>>
CanDeserialize(b) == Len(b) = 3 /\ b[1] = "pickle"
Deserialize(b) == <<b[2], b[3]>>
\* DocumentNames[name]: KeyError when name is no member
IsDocumentName(n) == n \in Names
DocumentNames(n) == <<"DocumentNames", n>>

\* what other producers may put on the topic
ForeignValues ==
    {<<"garbage">>, <<"pickle", "bogus", "d1">>,
     <<"pickle", "start", "d1">>, <<"pickle", "stop", "d2">>}

VARIABLES
    \* Publisher and its producer handle
    ppc,        \* position of the caller's thread in Publisher
    pname,      \* name argument of the publish call in progress
    pdoc,       \* the deep copy of doc made by the call in progress
    queue,      \* producer: messages handed over, not yet delivered or failed
    reports,    \* producer: delivery reports not yet served by poll/flush
    enq,        \* messages the call in progress has handed to the producer
    firstFull,  \* the first produce of the call raised BufferError
    waitFull,   \* the queue was still full when poll(10) returned
    retryFull,  \* the queue was still full when the handler reached the retry
    pres,       \* outcome of the last publish call
    cres,       \* outcome of the last close call
    published,  \* (name, doc) of the publish calls that returned normally
    sent,       \* number of messages ever handed to the producer
    nPub,       \* publish calls made
    closeRun,   \* close() calls returned since the last publish call
    callerDoc,  \* the caller's document object, as it is now
    mutated,    \* the caller changed its document since the last publish call
    attempts,   \* producer.produce calls made by the call in progress
    waits,      \* producer.poll(10) calls made by the call in progress
    \* broker
    log,        \* the topic: values in delivery order
    nFailed,    \* deliveries that failed permanently
    nForeign,   \* messages on the topic from other producers
    \* RemoteDispatcher and its consumer handle
    lpc,        \* position of the thread that calls start()
    spc,        \* position of the thread that calls stop() from outside
    closed,     \* self.closed
    released,   \* the consumer handle has been closed
    releaseCalls, \* calls of consumer.close() made
    offset,     \* consumer: messages of the topic already returned by poll
    msg,        \* value of the message the loop is handling
    exc,        \* exception travelling out of _poll
    entered,    \* the last start() call got past its guard into _poll
    lres,       \* outcome of the last start() call
    sres,       \* outcome of the last outside stop() call
    pollHist,   \* what each consumer.poll call of the loop gave
    dispatched, \* the (name, doc) pairs handed to process, in call order
    nStarts,    \* start() calls made
    nStops      \* outside stop() calls made

pubVars == <<ppc, pname, pdoc, queue, reports, enq, firstFull, waitFull,
             retryFull, pres, cres, published, sent, nPub, closeRun,
             callerDoc, mutated, attempts, waits>>
brokerVars == <<log, nFailed, nForeign>>
dispVars == <<lpc, spc, closed, released, releaseCalls, offset, msg, exc,
              entered, lres, sres, pollHist, dispatched, nStarts, nStops>>
vars == <<pubVars, brokerVars, dispVars>>

\* ---------------------------------------------------------------- Publisher
Message(topic, value) == [topic |-> topic, value |-> value]

\* librdkafka counts a message against the queue until its delivery report
\* has been served
QueueFull == Len(queue) + Len(reports) >= QueueCap

\* variant: Publisher with a delivery_report method
PublisherAttrsWithReport ==
    {"address", "producer", "_serializer", "__call__", "close",
     "delivery_report"}

\* attributes an instance of Publisher has
PublisherAttrs == {"address", "producer", "_serializer", "__call__", "close"}

\* copy.deepcopy(doc): a new object of equal value
DeepCopy(d) == d

\* variant: doc keeps naming the caller's object
LocalDocAliased == callerDoc

\* the object the local name doc refers to once doc = copy.deepcopy(doc) has
\* run: the copy, which nothing but this call can reach
LocalDoc == pdoc

PubInit ==
    /\ ppc = "idle" /\ pname = "start" /\ pdoc = "d1"
    /\ queue = <<>> /\ reports = <<>> /\ enq = 0
    /\ firstFull = FALSE /\ waitFull = FALSE /\ retryFull = FALSE
    /\ pres = "none" /\ cres = "none" /\ published = <<>>
    /\ sent = 0 /\ nPub = 0 /\ closeRun = 0
    /\ callerDoc = "d1" /\ mutated = FALSE /\ attempts = 0 /\ waits = 0

\* __call__(name, doc): doc = copy.deepcopy(doc)
PublishCall ==
    /\ ppc = "idle" /\ nPub < MaxPublish
    /\ \E e \in Emitted : pname' = e[1] /\ callerDoc' = e[2]
    /\ pdoc' = DeepCopy(callerDoc') /\ mutated' = FALSE
    /\ attempts' = 0 /\ waits' = 0
    /\ ppc' = "produce" /\ nPub' = nPub + 1
    /\ enq' = 0 /\ pres' = "none" /\ closeRun' = 0
    /\ firstFull' = FALSE /\ waitFull' = FALSE /\ retryFull' = FALSE
    /\ UNCHANGED <<queue, reports, cres, published, sent, brokerVars, dispVars>>

\* try: producer.produce('bluesky-event', serializer((name, doc)), ...)
ProduceFirst ==
    /\ ppc = "produce"
    /\ attempts' = attempts + 1
    /\ IF QueueFull
       THEN /\ firstFull' = TRUE /\ ppc' = "wait"
            /\ UNCHANGED <<queue, enq, sent>>
       ELSE /\ queue' = Append(queue, Message(Topic, Serialize(<<pname, LocalDoc>>)))
            /\ enq' = enq + 1 /\ sent' = sent + 1
            /\ ppc' = "poll0" /\ UNCHANGED firstFull
    /\ UNCHANGED <<pname, pdoc, reports, waitFull, retryFull, pres, cres,
                   published, nPub, closeRun, brokerVars, dispVars,
                   callerDoc, mutated, waits>>

\* variant: the second produce runs after a successful first one as well
PollZeroResubmit ==
    /\ ppc = "poll0"
    /\ reports' = <<>>
    /\ queue' = Append(queue, Message(Topic, Serialize(<<pname, pdoc>>)))
    /\ enq' = enq + 1 /\ sent' = sent + 1
    /\ pres' = "returned" /\ published' = Append(published, <<pname, pdoc>>)
    /\ ppc' = "idle"
    /\ UNCHANGED <<pname, pdoc, firstFull, waitFull, retryFull,
                   cres, nPub, closeRun, brokerVars, dispVars,
                   callerDoc, mutated, attempts, waits>>

\* producer.poll(0), then the call returns
PollZero ==
    /\ ppc = "poll0"
    /\ reports' = <<>>
    /\ pres' = "returned" /\ published' = Append(published, <<pname, pdoc>>)
    /\ ppc' = "idle"
    /\ UNCHANGED <<pname, pdoc, queue, enq, firstFull, waitFull, retryFull,
                   cres, sent, nPub, closeRun, brokerVars, dispVars,
                   callerDoc, mutated, attempts, waits>>

\* except BufferError: producer.poll(10)
PollWait ==
    /\ ppc = "wait"
    /\ reports' = <<>>
    /\ waitFull' = (Len(queue) >= QueueCap)
    /\ waits' = waits + 1
    /\ ppc' = "retry"
    /\ UNCHANGED <<pname, pdoc, queue, enq, firstFull, retryFull, pres, cres,
                   published, sent, nPub, closeRun, brokerVars, dispVars,
                   callerDoc, mutated, attempts>>

\* variant: the handler gives up quietly when the wait is over
PublishRetrySwallow ==
    /\ ppc = "retry"
    /\ retryFull' = QueueFull
    /\ pres' = "returned" /\ ppc' = "idle"
    /\ UNCHANGED <<pname, pdoc, queue, enq, sent, published, reports,
                   firstFull, waitFull, cres, nPub, closeRun, brokerVars,
                   dispVars,
                   callerDoc, mutated, attempts, waits>>

\* producer.produce(topic=..., value=doc, callback=self.delivery_report):
\* the arguments are evaluated before produce is called
PublishRetry ==
    /\ ppc = "retry"
    /\ retryFull' = QueueFull
    /\ IF "delivery_report" \notin PublisherAttrs
       THEN /\ pres' = "AttributeError"
            /\ UNCHANGED <<queue, enq, sent, published, attempts>>
       ELSE IF QueueFull
       THEN /\ pres' = "BufferError" /\ attempts' = attempts + 1
            /\ UNCHANGED <<queue, enq, sent, published>>
       ELSE /\ queue' = Append(queue, Message(Topic, <<"raw", LocalDoc>>))
            /\ enq' = enq + 1 /\ sent' = sent + 1
            /\ attempts' = attempts + 1
            /\ pres' = "returned"
            /\ published' = Append(published, <<pname, pdoc>>)
    /\ ppc' = "idle"
    /\ UNCHANGED <<pname, pdoc, reports, firstFull, waitFull, cres, nPub,
                   closeRun, brokerVars, dispVars,
                   callerDoc, mutated, waits>>

\* the caller changes the document it passed to the last publish call
Mutate ==
    /\ nPub >= 1
    /\ \E d \in Docs \ {callerDoc} : callerDoc' = d
    /\ mutated' = TRUE
    /\ UNCHANGED <<ppc, pname, pdoc, queue, reports, enq, firstFull, waitFull,
                   retryFull, pres, cres, published, sent, nPub, closeRun,
                   attempts, waits, brokerVars, dispVars>>

\* close(): producer.flush() is entered
CloseCall ==
    /\ ppc = "idle" /\ closeRun < MaxClose
    /\ ppc' = "flush" /\ cres' = "none"
    /\ UNCHANGED <<pname, pdoc, queue, reports, enq, firstFull, waitFull,
                   retryFull, pres, published, sent, nPub, closeRun, brokerVars, dispVars,
                   callerDoc, mutated, attempts, waits>>

\* variant: flush returns at once, whatever is outstanding
FlushReturnEarly ==
    /\ ppc = "flush"
    /\ reports' = <<>> /\ cres' = "returned" /\ ppc' = "idle"
    /\ closeRun' = closeRun + 1
    /\ UNCHANGED <<pname, pdoc, queue, enq, firstFull, waitFull, retryFull,
                   pres, published, sent, nPub, brokerVars, dispVars,
                   callerDoc, mutated, attempts, waits>>

\* flush() returns once nothing is outstanding, having served the reports
FlushReturn ==
    /\ ppc = "flush" /\ queue = <<>>
    /\ reports' = <<>> /\ cres' = "returned" /\ ppc' = "idle"
    /\ closeRun' = closeRun + 1
    /\ UNCHANGED <<pname, pdoc, queue, enq, firstFull, waitFull, retryFull,
                   pres, published, sent, nPub, brokerVars, dispVars,
                   callerDoc, mutated, attempts, waits>>

\* ---------------------------------------------------------------- broker
\* the producer's background thread delivers the oldest queued message, or
\* gives it up for good; either way a delivery report is queued
\* (delivery_report(err, msg) only prints)
Deliver ==
    /\ queue # <<>>
    /\ \/ /\ log' = Append(log, Head(queue).value)
          /\ reports' = Append(reports, "delivered")
          /\ UNCHANGED nFailed
       \/ /\ reports' = Append(reports, "failed")
          /\ nFailed' = nFailed + 1
          /\ UNCHANGED log
    /\ queue' = Tail(queue)
    /\ UNCHANGED <<ppc, pname, pdoc, enq, firstFull, waitFull, retryFull, pres,
                   cres, published, sent, nPub, closeRun, nForeign, dispVars,
                   callerDoc, mutated, attempts, waits>>

\* another producer puts a message on the topic
ForeignProduce ==
    /\ nForeign < MaxForeign
    /\ \E v \in ForeignValues : log' = Append(log, v)
    /\ nForeign' = nForeign + 1
    /\ UNCHANGED <<pubVars, nFailed, dispVars>>

\* ---------------------------------------------------------------- RemoteDispatcher
\* __init__: the consumer is subscribed to the topic, closed = False
DispInit ==
    /\ lpc = "idle" /\ spc = "idle"
    /\ closed = FALSE /\ released = FALSE /\ releaseCalls = 0
    /\ offset = 0 /\ msg = <<>> /\ exc = "none" /\ entered = FALSE
    /\ lres = "none" /\ sres = "none"
    /\ pollHist = <<>> /\ dispatched = <<>>
    /\ nStarts = 0 /\ nStops = 0

PollResult(kind, value) == [kind |-> kind, value |-> value]

\* variant: start() without its guard
StartCallNoGuard ==
    /\ lpc = "idle" /\ nStarts < MaxStarts
    /\ nStarts' = nStarts + 1
    /\ lres' = "none" /\ entered' = TRUE /\ lpc' = "poll"
    /\ exc' = "none"
    /\ UNCHANGED <<spc, closed, released, releaseCalls, offset, msg, sres,
                   pollHist, dispatched, nStops, pubVars, brokerVars>>

\* start(): the guard on self.closed, then _poll() is entered
StartCall ==
    /\ lpc = "idle" /\ nStarts < MaxStarts
    /\ nStarts' = nStarts + 1
    /\ IF closed
       THEN /\ lres' = "IllegalState" /\ entered' = FALSE
            /\ UNCHANGED lpc
       ELSE /\ lres' = "none" /\ entered' = TRUE
            /\ lpc' = "poll"
    /\ exc' = "none"
    /\ UNCHANGED <<spc, closed, released, releaseCalls, offset, msg, sres,
                   pollHist, dispatched, nStops, pubVars, brokerVars>>

\* variant: the loop does not expect poll to return None
PollNoneFatal ==
    /\ lpc = "poll" /\ (Len(pollHist) < MaxPolls \/ released)
    /\ IF released
       THEN /\ pollHist' = Append(pollHist, PollResult("raised", <<>>))
            /\ exc' = "ConsumerClosed" /\ lpc' = "handler"
            /\ UNCHANGED <<offset, msg>>
       ELSE \/ /\ pollHist' = Append(pollHist, PollResult("none", <<>>))
               /\ exc' = "AttributeError" /\ lpc' = "handler"
               /\ UNCHANGED <<offset, msg>>
            \/ /\ pollHist' = Append(pollHist, PollResult("error", <<>>))
               /\ UNCHANGED <<lpc, offset, msg, exc>>
            \/ /\ offset < Len(log)
               /\ pollHist' = Append(pollHist, PollResult("payload", log[offset + 1]))
               /\ msg' = log[offset + 1] /\ offset' = offset + 1
               /\ lpc' = "handle" /\ UNCHANGED exc
            \/ /\ pollHist' = Append(pollHist, PollResult("raised", <<>>))
               /\ exc' = "KeyboardInterrupt" /\ lpc' = "handler"
               /\ UNCHANGED <<offset, msg>>
    /\ UNCHANGED <<spc, closed, released, releaseCalls, entered, lres, sres,
                   dispatched, nStarts, nStops, pubVars, brokerVars>>

\* variant: a message carrying an error ends the loop
PollErrorFatal ==
    /\ lpc = "poll" /\ (Len(pollHist) < MaxPolls \/ released)
    /\ IF released
       THEN /\ pollHist' = Append(pollHist, PollResult("raised", <<>>))
            /\ exc' = "ConsumerClosed" /\ lpc' = "handler"
            /\ UNCHANGED <<offset, msg>>
       ELSE \/ /\ pollHist' = Append(pollHist, PollResult("none", <<>>))
               /\ UNCHANGED <<lpc, offset, msg, exc>>
            \/ /\ pollHist' = Append(pollHist, PollResult("error", <<>>))
               /\ exc' = "KafkaException" /\ lpc' = "handler"
               /\ UNCHANGED <<offset, msg>>
            \/ /\ offset < Len(log)
               /\ pollHist' = Append(pollHist, PollResult("payload", log[offset + 1]))
               /\ msg' = log[offset + 1] /\ offset' = offset + 1
               /\ lpc' = "handle" /\ UNCHANGED exc
            \/ /\ pollHist' = Append(pollHist, PollResult("raised", <<>>))
               /\ exc' = "KeyboardInterrupt" /\ lpc' = "handler"
               /\ UNCHANGED <<offset, msg>>
    /\ UNCHANGED <<spc, closed, released, releaseCalls, entered, lres, sres,
                   dispatched, nStarts, nStops, pubVars, brokerVars>>

\* msg = self.consumer.poll(1.0), and the branches that fall back to the loop
Poll ==
    /\ lpc = "poll" /\ (Len(pollHist) < MaxPolls \/ released)
    /\ IF released
       THEN \* poll on a closed consumer raises
            /\ pollHist' = Append(pollHist, PollResult("raised", <<>>))
            /\ exc' = "ConsumerClosed" /\ lpc' = "handler"
            /\ UNCHANGED <<offset, msg>>
       ELSE \/ \* msg is None
               /\ pollHist' = Append(pollHist, PollResult("none", <<>>))
               /\ UNCHANGED <<lpc, offset, msg, exc>>
            \/ \* msg.error(): print and loop
               /\ pollHist' = Append(pollHist, PollResult("error", <<>>))
               /\ UNCHANGED <<lpc, offset, msg, exc>>
            \/ \* the next message of the topic
               /\ offset < Len(log)
               /\ pollHist' = Append(pollHist, PollResult("payload", log[offset + 1]))
               /\ msg' = log[offset + 1] /\ offset' = offset + 1
               /\ lpc' = "handle" /\ UNCHANGED exc
            \/ \* the blocking call is interrupted
               /\ pollHist' = Append(pollHist, PollResult("raised", <<>>))
               /\ exc' = "KeyboardInterrupt" /\ lpc' = "handler"
               /\ UNCHANGED <<offset, msg>>
    /\ UNCHANGED <<spc, closed, released, releaseCalls, entered, lres, sres,
                   dispatched, nStarts, nStops, pubVars, brokerVars>>

\* variant: a message is handed to process twice
HandleTwice ==
    /\ lpc = "handle"
    /\ IF ~CanDeserialize(msg)
       THEN exc' = "UnpicklingError" /\ lpc' = "handler" /\ UNCHANGED dispatched
       ELSE IF ~IsDocumentName(Deserialize(msg)[1])
       THEN exc' = "KeyError" /\ lpc' = "handler" /\ UNCHANGED dispatched
       ELSE /\ dispatched' = dispatched \o
                    << <<DocumentNames(Deserialize(msg)[1]), Deserialize(msg)[2]>>,
                       <<DocumentNames(Deserialize(msg)[1]), Deserialize(msg)[2]>> >>
            /\ lpc' = "process" /\ UNCHANGED exc
    /\ UNCHANGED <<spc, closed, released, releaseCalls, offset, msg, entered,
                   lres, sres, pollHist, nStarts, nStops, pubVars, brokerVars>>

\* variant: process is given the name in place of the document
HandleNameAsDoc ==
    /\ lpc = "handle"
    /\ IF ~CanDeserialize(msg)
       THEN exc' = "UnpicklingError" /\ lpc' = "handler" /\ UNCHANGED dispatched
       ELSE IF ~IsDocumentName(Deserialize(msg)[1])
       THEN exc' = "KeyError" /\ lpc' = "handler" /\ UNCHANGED dispatched
       ELSE /\ dispatched' = Append(dispatched,
                    <<DocumentNames(Deserialize(msg)[1]), Deserialize(msg)[1]>>)
            /\ lpc' = "process" /\ UNCHANGED exc
    /\ UNCHANGED <<spc, closed, released, releaseCalls, offset, msg, entered,
                   lres, sres, pollHist, nStarts, nStops, pubVars, brokerVars>>

\* name, doc = self._deserializer(msg.value());
\* self.process(DocumentNames[name], doc) is called
Handle ==
    /\ lpc = "handle"
    /\ IF ~CanDeserialize(msg)
       THEN exc' = "UnpicklingError" /\ lpc' = "handler" /\ UNCHANGED dispatched
       ELSE IF ~IsDocumentName(Deserialize(msg)[1])
       THEN exc' = "KeyError" /\ lpc' = "handler" /\ UNCHANGED dispatched
       ELSE /\ dispatched' = Append(dispatched,
                    <<DocumentNames(Deserialize(msg)[1]), Deserialize(msg)[2]>>)
            /\ lpc' = "process" /\ UNCHANGED exc
    /\ UNCHANGED <<spc, closed, released, releaseCalls, offset, msg, entered,
                   lres, sres, pollHist, nStarts, nStops, pubVars, brokerVars>>

\* process returns to the loop, or a subscriber raises
ProcessReturn ==
    /\ lpc = "process"
    /\ \/ lpc' = "poll" /\ UNCHANGED exc
       \/ lpc' = "handler" /\ exc' = "SubscriberError"
    /\ UNCHANGED <<spc, closed, released, releaseCalls, offset, msg, entered,
                   lres, sres, pollHist, dispatched, nStarts, nStops,
                   pubVars, brokerVars>>

\* except: self.stop() -- its first statement, self.consumer.close();
\* closing a consumer that is already closed may raise
HandlerClose ==
    /\ lpc = "handler"
    /\ releaseCalls' = releaseCalls + 1
    /\ IF released
       THEN \/ lpc' = "idle" /\ lres' = "ConsumerClosed"
            \/ lpc' = "setclosed" /\ UNCHANGED lres
       ELSE lpc' = "setclosed" /\ UNCHANGED lres
    /\ released' = TRUE
    /\ UNCHANGED <<spc, closed, offset, msg, exc, entered, sres, pollHist,
                   dispatched, nStarts, nStops, pubVars, brokerVars>>

\* self.closed = True, then the handler re-raises
HandlerRaise ==
    /\ lpc = "setclosed"
    /\ closed' = TRUE
    /\ lres' = exc /\ lpc' = "idle"
    /\ UNCHANGED <<spc, released, releaseCalls, offset, msg, exc, entered,
                   sres, pollHist, dispatched, nStarts, nStops,
                   pubVars, brokerVars>>

\* variant: stop() that leaves the consumer open
StopCallNoClose ==
    /\ spc = "idle" /\ nStops < MaxStops
    /\ nStops' = nStops + 1
    /\ spc' = "setclosed" /\ sres' = "none"
    /\ UNCHANGED <<lpc, closed, released, releaseCalls, offset, msg, exc,
                   entered, lres, pollHist, dispatched, nStarts,
                   pubVars, brokerVars>>

\* stop() called from outside start(): self.consumer.close()
StopCall ==
    /\ spc = "idle" /\ nStops < MaxStops
    /\ nStops' = nStops + 1
    /\ releaseCalls' = releaseCalls + 1
    /\ IF released
       THEN \/ spc' = "idle" /\ sres' = "ConsumerClosed"
            \/ spc' = "setclosed" /\ sres' = "none"
       ELSE spc' = "setclosed" /\ sres' = "none"
    /\ released' = TRUE
    /\ UNCHANGED <<lpc, closed, offset, msg, exc, entered, lres, pollHist,
                   dispatched, nStarts, pubVars, brokerVars>>

\* stop(): self.closed = True, and stop returns
StopReturn ==
    /\ spc = "setclosed"
    /\ closed' = TRUE
    /\ sres' = "returned" /\ spc' = "idle"
    /\ UNCHANGED <<lpc, released, releaseCalls, offset, msg, exc, entered,
                   lres, pollHist, dispatched, nStarts, nStops,
                   pubVars, brokerVars>>

\* ---------------------------------------------------------------- specifications
Init == PubInit /\ DispInit /\ log = <<>> /\ nFailed = 0 /\ nForeign = 0

\* the Publisher, its producer and the topic
NextPub ==
    \/ PublishCall \/ ProduceFirst \/ PollZero \/ PollWait \/ PublishRetry
    \/ CloseCall \/ FlushReturn
    \/ Deliver \/ Mutate

SpecPub == Init /\ [][NextPub]_vars

\* the RemoteDispatcher, its consumer and a topic fed by other producers
NextDisp ==
    \/ StartCall \/ Poll \/ Handle \/ ProcessReturn
    \/ HandlerClose \/ HandlerRaise
    \/ StopCall \/ StopReturn
    \/ ForeignProduce

SpecDisp == Init /\ [][NextDisp]_vars

\* the same, with every thread that can take a step taking it in the end:
\* the loop's thread, process returning, and a stop() under way
SpecDispFair ==
    /\ SpecDisp
    /\ WF_vars(Poll) /\ WF_vars(Handle) /\ WF_vars(ProcessReturn)
    /\ WF_vars(HandlerClose) /\ WF_vars(HandlerRaise)
    /\ WF_vars(StopReturn)

\* both ends on one topic that no other producer writes to, the
\* RemoteDispatcher left to run until its loop exits by itself
NextBridge ==
    \/ PublishCall \/ ProduceFirst \/ PollZero \/ PollWait \/ PublishRetry
    \/ CloseCall \/ FlushReturn
    \/ Deliver \/ Mutate
    \/ StartCall \/ Poll \/ Handle \/ ProcessReturn
    \/ HandlerClose \/ HandlerRaise

SpecBridge == Init /\ [][NextBridge]_vars

\* ---------------------------------------------------------------- helpers
Last(s) == s[Len(s)]
IsPrefix(s, t) == Len(s) <= Len(t) /\ \A i \in 1..Len(s) : s[i] = t[i]

RECURSIVE IsSubseq(_, _)
IsSubseq(s, t) ==
    IF s = <<>> THEN TRUE
    ELSE IF t = <<>> THEN FALSE
    ELSE IF Head(s) = Head(t) THEN IsSubseq(Tail(s), Tail(t))
    ELSE IsSubseq(s, Tail(t))

\* outcomes of publish that are an exception raised to the caller
Raised == {"BufferError", "AttributeError"}
PublishDone == pres # "none"

\* ---------------------------------------------------------------- Publisher claims
\* C1 (as claimed): a publish call whose first produce found the queue full,
\* and whose queue had space when the bounded wait ended, returns without
\* raising and has handed its document to the producer.
C1_BackpressureRecovery ==
    (PublishDone /\ firstFull /\ ~waitFull) => (pres = "returned" /\ enq = 1)

C3_NoDropNoDuplicate ==
    /\ PublishDone =>
          \/ pres = "returned" /\ enq = 1
          \/ pres \in Raised /\ enq = 0
    /\ sent = Len(published) + (IF ppc = "poll0" THEN 1 ELSE 0)

C3_Witness ==
    /\ pres \in Raised /\ enq = 0 /\ Len(published) = 1 /\ sent = 1
    /\ nPub = 2

\* C10: close() returns only when no submitted message is still pending and
\* does not raise; while close() runs nothing is handed to the producer; a
\* close() that follows a close() finds nothing pending and leaves the
\* producer queue and the topic as they are.
C10_IdempotentClose ==
    [][ /\ (ppc = "flush" /\ ppc' = "idle") =>
              (queue' = <<>> /\ reports' = <<>> /\ cres' = "returned")
        /\ ppc = "flush" => (sent' = sent /\ Len(queue') <= Len(queue))
        /\ (ppc = "flush" /\ closeRun >= 1) =>
              (queue = <<>> /\ queue' = queue /\ log' = log) ]_vars

C10_Witness ==
    closeRun = 2 /\ ppc = "idle" /\ cres = "returned" /\ sent = 2
    /\ Len(log) >= 1 /\ nFailed >= 1

\* ---------------------------------------------------------------- RemoteDispatcher claims
\* the values of the payload messages poll has returned, in order
RECURSIVE PayloadValues(_)
PayloadValues(h) ==
    IF h = <<>> THEN <<>>
    ELSE IF Head(h).kind = "payload"
         THEN <<Head(h).value>> \o PayloadValues(Tail(h))
         ELSE PayloadValues(Tail(h))

Polled == PayloadValues(pollHist)
Valid(v) == CanDeserialize(v) /\ IsDocumentName(Deserialize(v)[1])
AllValid(vs) == \A i \in 1..Len(vs) : Valid(vs[i])
Decoded(v) == <<DocumentNames(Deserialize(v)[1]), Deserialize(v)[2]>>

\* C4: the pairs handed to process are the payload messages poll returned,
\* in poll order and once each; when the loop is about to poll, every
\* payload message returned so far has been handed over, and at most one
\* message is ever in hand.
C4_ReceiptOrderDispatch ==
    /\ Len(dispatched) <= Len(Polled)
    /\ \A i \in 1..Len(dispatched) :
          Valid(Polled[i]) /\ dispatched[i] = Decoded(Polled[i])
    /\ Len(Polled) <= Len(dispatched) + 1
    /\ lpc \in {"poll", "process"} /\ AllValid(Polled)
          => Len(dispatched) = Len(Polled)

C4_Witness ==
    /\ lpc = "poll" /\ Len(dispatched) = 2 /\ dispatched[1] # dispatched[2]
    /\ Len(pollHist) = 3

\* C6: a poll that yields a message carrying an error leaves the loop at its
\* next poll, releases nothing, marks nothing stopped, ends no start() call
\* and hands nothing to process; payload messages polled after it are
\* handed to process like any other.
C6_BrokerErrorTolerated ==
    /\ [][ (Len(pollHist') = Len(pollHist) + 1
              /\ Last(pollHist').kind = "error")
            => /\ lpc' = "poll" /\ lres' = lres /\ exc' = exc
               /\ closed' = closed /\ released' = released
               /\ releaseCalls' = releaseCalls
               /\ dispatched' = dispatched ]_vars
    /\ [](\A i \in 1..Len(pollHist) :
            (pollHist[i].kind = "error" /\ lpc = "poll" /\ AllValid(Polled))
                => Len(dispatched) = Len(Polled))

C6_Witness ==
    /\ Len(pollHist) = 2
    /\ pollHist[1].kind = "error" /\ pollHist[2].kind = "payload"
    /\ lpc = "poll" /\ dispatched = <<Decoded(pollHist[2].value)>>
    /\ ~closed /\ ~released

\* C7: the closed flag, once set, stays set, and every start() call made
\* while it is set ends at once with the illegal-state error: no poll, no
\* message consumed, nothing handed to process.
C7_StoppedIsTerminal ==
    [][ /\ closed => closed'
        /\ (closed /\ nStarts' = nStarts + 1)
             => /\ lres' = "IllegalState" /\ lpc' = "idle"
                /\ pollHist' = pollHist /\ offset' = offset
                /\ dispatched' = dispatched ]_vars

C7_Witness ==
    /\ closed /\ lres = "IllegalState" /\ lpc = "idle"
    /\ nStarts = 1 /\ pollHist = <<>>

\* C8 (as claimed): when a start() call that entered the receive loop has
\* exited, the consumer handle is released and the instance is marked
\* stopped.
C8_ReleasedOnExit ==
    (lpc = "idle" /\ entered /\ lres # "none") => (released /\ closed)

\* C9 (as claimed): consumer.close() is called at most once.
C9_ReleaseAtMostOnce == releaseCalls <= 1

\* ---------------------------------------------------------------- bridge claims
\* the (name, doc) pairs handed to the producer so far, in call order
Submitted ==
    IF ppc = "poll0" THEN Append(published, <<pname, pdoc>>) ELSE published
\* the pairs handed to process, with each DocumentNames member by its name
Delivered == [i \in 1..Len(dispatched) |-> <<dispatched[i][1][2], dispatched[i][2]>>]

\* C5 (as claimed): the dispatched sequence is at every moment a prefix of
\* the published sequence.
C5_DispatchedIsPrefix == IsPrefix(Delivered, Submitted)

\* C5 (amended): the dispatched pairs are published pairs, unchanged and in
\* publication order; they are a prefix of the published sequence as long
\* as no delivery has failed for good.
C5_DispatchedInOrder ==
    /\ IsSubseq(Delivered, Submitted)
    /\ nFailed = 0 => IsPrefix(Delivered, Submitted)

C5_Witness ==
    /\ Delivered = << <<"start", "d1">>, <<"stop", "d2">> >>
    /\ published = Delivered /\ lpc = "poll"

\* ---------------------------------------------------------------- further Publisher claims
\* C11: a message handed to the producer carries the document as it was when
\* publish was called; a later change of the caller's document changes no
\* message, queued or delivered, nor the copy a call in progress holds; no
\* step of publish changes the caller's document.
C11_OwnedCopy ==
    [][ /\ sent' = sent + 1 =>
              Last(queue') = Message(Topic, Serialize(<<pname, pdoc>>))
        /\ (callerDoc' # callerDoc /\ nPub' = nPub) =>
              (queue' = queue /\ log' = log /\ pdoc' = pdoc
               /\ published' = published)
        /\ (ppc' # ppc /\ nPub' = nPub) => callerDoc' = callerDoc ]_vars

C11_Witness ==
    /\ mutated /\ callerDoc # pdoc /\ enq = 1 /\ pres = "returned"
    /\ queue = <<Message(Topic, Serialize(<<pname, pdoc>>))>>

\* the topic the RemoteDispatcher's consumer is subscribed to
SubscribedTopic == "bluesky-event"
\* what the serializer gives for a pair of a document name and a document
WireMessages == {Serialize(<<n, d>>) : n \in Names, d \in Docs}

\* C12: every message the Publisher has handed to the producer, whether still
\* queued or already on the topic, is addressed to the topic the
\* RemoteDispatcher subscribes to and carries the serialized pair of a name
\* and a document, never a bare document; the pairs are those of the
\* publish calls, in call order.
C12_UniformWireFormat ==
    /\ \A i \in 1..Len(queue) :
          queue[i].topic = SubscribedTopic /\ queue[i].value \in WireMessages
    /\ \A i \in 1..Len(log) : log[i] \in WireMessages
    /\ IsSubseq(log \o [i \in 1..Len(queue) |-> queue[i].value],
                [i \in 1..Len(Submitted) |-> Serialize(Submitted[i])])

C12_Witness ==
    /\ PublishDone /\ firstFull /\ ~retryFull /\ waits = 1
    /\ Len(log) = 1 /\ sent = 1

\* C13 (as claimed): a publish call makes at most two produce calls and at
\* most one poll(10); the poll(10) comes only after the first produce found
\* the queue full, and a call that waited has made its second produce call
\* by the time it ends.
C13_BoundedRetry ==
    /\ attempts <= 2 /\ waits <= 1
    /\ waits = 1 => firstFull
    /\ (PublishDone /\ waits = 1) => attempts = 2

\* ---------------------------------------------------------------- further RemoteDispatcher claims
\* C14: a poll that returns no message hands nothing to process, consumes
\* no message, ends no start() call, leaves the instance not stopped and the
\* consumer handle unreleased, and leaves the loop at its next poll.
C14_EmptyPollIsNoOp ==
    [][ (Len(pollHist') = Len(pollHist) + 1
          /\ Last(pollHist').kind = "none")
        => /\ lpc' = "poll" /\ lres' = lres /\ exc' = exc
           /\ dispatched' = dispatched /\ offset' = offset
           /\ ~closed' /\ ~released' /\ releaseCalls' = releaseCalls ]_vars

C14_Witness ==
    /\ Len(pollHist) = 2
    /\ pollHist[1].kind = "none" /\ pollHist[2].kind = "none"
    /\ lpc = "poll" /\ ~closed /\ ~released /\ dispatched = <<>>
    /\ Len(log) >= 1

\* the last payload message poll returned cannot be deserialized, or names
\* no member of DocumentNames, and the loop has dealt with it
Poisoned == Polled # <<>> /\ ~Valid(Last(Polled)) /\ lpc # "handle"

\* C15 (as claimed): after a poisoned message nothing is handed to process
\* for it or for any later message, the loop is left for good, and when
\* the start() call that polled it has exited the consumer is released, the
\* instance is marked stopped and the exception of the message is what
\* start() raised.
C15_PoisonedIsFatal ==
    Poisoned =>
        /\ Len(dispatched) = Len(Polled) - 1
        /\ lpc \in {"handler", "setclosed", "idle"}
        /\ (lpc = "idle" /\ entered) =>
              (released /\ closed /\ lres \in {"UnpicklingError", "KeyError"})

\* C16 (as claimed): whenever a start() call has finished the instance is
\* marked stopped, and a start() call whose loop is running on an open
\* consumer has not finished.
C16_StartExitsStopped ==
    /\ (lpc = "idle" /\ lres # "none") => closed
    /\ (lpc \in {"poll", "handle", "process"} /\ ~released) =>
          (lres = "none" /\ ~closed)

\* C17 (as claimed): once the instance is marked stopped nothing more is
\* handed to process, and a start() call still under way then exits.
C17_NoDispatchAfterStop ==
    /\ [][closed => dispatched' = dispatched]_vars
    /\ (closed /\ lpc # "idle") ~> (lpc = "idle")

\* C17 (amended): once the instance is marked stopped the loop gets no
\* further message from poll; the only thing still handed to process is
\* the one message poll had already returned; and a start() call still
\* under way then exits.
C17_NoPollAfterStop ==
    /\ [][closed =>
            /\ offset' = offset
            /\ dispatched' # dispatched =>
                  /\ lpc = "handle"
                  /\ dispatched' = Append(dispatched, Decoded(Last(Polled)))
                  /\ Len(dispatched') = Len(Polled)]_vars
    /\ (closed /\ lpc # "idle") ~> (lpc = "idle")

C17_Witness ==
    /\ sres = "returned" /\ closed /\ lpc = "idle" /\ entered
    /\ lres = "ConsumerClosed" /\ Len(dispatched) = 1
    /\ Last(pollHist).kind = "raised"
====
